---- MODULE Spec2Model ----
(***************************************************************************)
(* A model of export-history.py: the incremental Rocket.Chat history       *)
(* exporter.  One execution of the script is a "run"; the state file and   *)
(* the output directory outlive the runs.  Time is counted in ticks of one *)
(* microsecond, scaled down: a millisecond is one_ms ticks and a day is    *)
(* MsPerDay milliseconds.                                                   *)
(***************************************************************************)
EXTENDS Integers, Sequences, FiniteSets, TLC

VARIABLES
    state_file,     \* the pickled state on disk: [exists, keys, data]
    files,          \* the output directory: the set of paths written
    room_state,     \* the in-memory dict of the running script: [keys, data]
    start_time,     \* <<>> (None) or <<t>>
    end_time,
    readonlystate,
    polite_pause,
    pc,             \* position of the script
    idx,            \* position of the for loop in room_state.items()
    t_oldest,
    t_latest,
    retry_count,
    remote,         \* the provider: per room its ts and its message times
    joined,         \* the provider: the rooms its list calls report
    rname,          \* the provider: the name of each named room
    writer,         \* who wrote what: the (path, room id) pairs of all writes
    run,            \* number of runs started
    saved0,         \* state_file as it was when the current run started
    again,          \* this run repeats the bounds of a persisted run, provider unchanged
    changed,        \* the provider's lists changed since the last run began
    windows,        \* the (t_oldest, t_latest) windows of the room in hand
    cur,            \* the room of `windows`
    fetched,        \* (room, day) windows answered with success, in any run
    nfetch,         \* 1 once the current run has issued a history call, else 0
    retries,        \* rate-limit responses absorbed in the current run
    lastResp,       \* the last history response and what was done with it
    lastCall,       \* the last provider call: its kind and the sleep before it
    slept           \* seconds slept since the last provider call

vars == << state_file, files, room_state, start_time, end_time, readonlystate,
           polite_pause, pc, idx, t_oldest, t_latest, retry_count, remote,
           joined, rname, writer, run, saved0, again, changed, windows, cur,
           fetched, nfetch, retries, lastResp, lastCall, slept >>

----------------------------------------------------------------------------
(* Bounds of the model *)

one_ms == 2             \* ticks (microseconds) in a millisecond
MsPerDay == 2           \* milliseconds in a day
MaxDay == 2             \* days are 0 .. MaxDay
MaxRuns == 2            \* runs of the script
MaxRetries == 2         \* rate-limit responses absorbed per run
MaxMsgs == 1            \* messages per room at the provider
PauseSeconds == 2       \* settings.cfg: pause_seconds
CountMaxCfg == 1        \* settings.cfg: max_msg_count_per_day

(* Program constants *)

VERSION == 11           \* schema version 1.1, in tenths
null_date == 0          \* datetime(1, 1, 1): the smallest instant
WaitLimit == 300

one_us == 1
one_day == MsPerDay * one_ms
count_max == CountMaxCfg

Days == 0 .. MaxDay
DayStart(d) == d * one_day
EndOfDay(d) == DayStart(d) + one_day - one_us
DayOf(t) == t \div one_day

\* datetime.replace(hour=0, minute=0, second=0, microsecond=0)
StartOfDay(t) == (t \div one_day) * one_day

\* strftime(date_format)[:-4] + 'Z': the instant cut to whole milliseconds
get_rocketchat_timestamp(in_date) == (in_date \div one_ms) * one_ms

Max(S) == CHOOSE x \in S : \A y \in S : y <= x
Min2(a, b) == IF a < b THEN a ELSE b

----------------------------------------------------------------------------
(* The provider *)

RoomIds == {"r1", "r2", "r3"}
META == "_meta"

RoomType(r) ==
    IF r = "r1" THEN "channels" ELSE IF r = "r2" THEN "ims" ELSE "groups"
CreatedDay(r) == IF r = "r1" THEN 1 ELSE 2

\* r1 is a named channel, r3 a named private group; r2 is a direct
\* message, which carries no name
HasName(r) == RoomType(r) # "ims"
Named == { r \in RoomIds : HasName(r) }
RemoteName(r) == rname[r]

\* the names a room can be given
Names == { "general", "town" }

\* the instants a message of room r can carry: whole milliseconds, on or
\* after the room's creation
MsgTimes(r) ==
    { DayStart(d) + k * one_ms : d \in CreatedDay(r) .. MaxDay, k \in 0 .. 1 }
        \ { DayStart(CreatedDay(r)) }

Remotes ==
    [ RoomIds -> { m \in SUBSET (UNION { MsgTimes(r) : r \in RoomIds }) :
                       Cardinality(m) <= MaxMsgs } ]

\* a room descriptor of a list call: 'lm' is absent (<<>>) without messages
Descriptor(r) ==
    [ id |-> r,
      name |-> IF HasName(r) THEN << RemoteName(r) >> ELSE << >>,
      ts |-> DayStart(CreatedDay(r)) + one_ms,
      lm |-> IF remote[r] = {} THEN << >> ELSE << Max(remote[r]) >> ]

\* the order in which the provider lists its rooms
ProviderOrder == << "r1", "r2", "r3" >>

\* the json of channels_list_joined / im_list / groups_list
RoomList(room_type) ==
    LET Listed(x) == x \in joined /\ RoomType(x) = room_type
        ids == SelectSeq(ProviderOrder, Listed)
    IN [ i \in 1 .. Len(ids) |-> Descriptor(ids[i]) ]

----------------------------------------------------------------------------
(* State *)

NoState == [ exists |-> FALSE, keys |-> << >>, data |-> << >> ]

FreshState ==
    [ keys |-> << META >>,
      data |-> [ k \in {META} |-> [ schema_version |-> VERSION ] ] ]

Keys(st) == { st.keys[i] : i \in 1 .. Len(st.keys) }

\* dict[key][field] = v, creating the field when it is missing
SetField(rec, field, v) ==
    [ f \in (DOMAIN rec) \cup {field} |-> IF f = field THEN v ELSE rec[f] ]

SchemaV10 == 10         \* 1.0, the version of a state without '_meta'
SchemaV11 == 11         \* 1.1, the version the upgrade produces

\* schema_version as the load reads it
SchemaVersion(st) ==
    IF META \in Keys(st) THEN st.data[META].schema_version ELSE SchemaV10

\* t_typemap[...]; a key the map lacks is a KeyError
t_typemap(t) ==
    CASE t = "direct" -> "ims"
      [] t = "channel" -> "channels"
      [] OTHER -> "KeyError"

\* upgrade_state_schema, were '_meta' left out of the upgraded state
UpgradeNoMeta(state_array, schema_version) ==
    IF schema_version < SchemaV11
    THEN [ keys |-> state_array.keys,
           data |-> [ t_id \in Keys(state_array) |->
                        SetField(state_array.data[t_id], "type",
                                 t_typemap(state_array.data[t_id].type)) ] ]
    ELSE state_array

\* 1.0 -> 1.1: every entry's 'type' goes through t_typemap, then '_meta'
\* is set (a new key goes to the end of the dict).
upgrade_state_schema(state_array, schema_version) ==
    IF schema_version < SchemaV11
    THEN [ keys |-> IF META \in Keys(state_array) THEN state_array.keys
                    ELSE Append(state_array.keys, META),
           data |-> [ t_id \in Keys(state_array) \cup {META} |->
                        IF t_id = META
                        THEN [ schema_version |-> SchemaV11 ]
                        ELSE SetField(state_array.data[t_id], "type",
                                      t_typemap(state_array.data[t_id].type)) ] ]
    ELSE state_array

\* what the load does to the unpickled state
Migrate(st) ==
    IF SchemaVersion(st) < VERSION
    THEN upgrade_state_schema(st, SchemaVersion(st))
    ELSE st

Content(file) == [ keys |-> file.keys, data |-> file.data ]

\* The state the script starts from.
Loaded ==
    IF state_file.exists
    THEN Migrate(Content(state_file))
    ELSE FreshState

NewRoom(channel, room_type) ==
    [ name |-> IF channel.name # << >> THEN channel.name[1]
               ELSE "direct-" \o channel.id,
      type |-> room_type,
      lastsaved |-> null_date,
      begintime |-> StartOfDay(channel.ts) ]

LastMessage(channel) == IF channel.lm # << >> THEN channel.lm[1] ELSE null_date

\* AssembleOne, were the entry of a known room built anew
AssembleOneAnew(st, channel, room_type) ==
    LET known == channel.id \in Keys(st)
        rec == NewRoom(channel, room_type)
    IN [ keys |-> IF known THEN st.keys ELSE Append(st.keys, channel.id),
         data |-> [ k \in Keys(st) \cup {channel.id} |->
                      IF k = channel.id
                      THEN SetField(rec, "lastmessage", LastMessage(channel))
                      ELSE st.data[k] ] ]

\* one iteration of the loop of assemble_state
AssembleOne(st, channel, room_type) ==
    LET known == channel.id \in Keys(st)
        rec == IF known THEN st.data[channel.id] ELSE NewRoom(channel, room_type)
    IN [ keys |-> IF known THEN st.keys ELSE Append(st.keys, channel.id),
         data |-> [ k \in Keys(st) \cup {channel.id} |->
                      IF k = channel.id
                      THEN SetField(rec, "lastmessage", LastMessage(channel))
                      ELSE st.data[k] ] ]

RECURSIVE AssembleAll(_, _, _)
AssembleAll(st, chans, room_type) ==
    IF chans = << >> THEN st
    ELSE AssembleAll(AssembleOne(st, Head(chans), room_type), Tail(chans),
                     room_type)

assemble_state(state_array, room_type) ==
    AssembleAll(state_array, RoomList(room_type), room_type)

----------------------------------------------------------------------------
NoResp ==
    [ success |-> FALSE, too_many |-> FALSE, wait |-> << >>, n |-> 0,
      wrote |-> FALSE, logged |-> FALSE, handled |-> "none" ]
NoCall == [ kind |-> "none", retry |-> FALSE, gap |-> 0, pause |-> 0, n |-> 0 ]

\* a provider call made now: the sleep since the call before it is recorded
Called(kind, retry, pause) ==
    [ kind |-> kind, retry |-> retry, gap |-> slept, pause |-> pause,
      n |-> Min2(lastCall.n + 1, 2) ]

\* the script not yet run
InitRun ==
    /\ files = {}
    /\ room_state = [ keys |-> << >>, data |-> << >> ]
    /\ start_time = << >>
    /\ end_time = 0
    /\ readonlystate = FALSE
    /\ polite_pause = 0
    /\ pc = "idle"
    /\ idx = 0
    /\ t_oldest = 0
    /\ t_latest = 0
    /\ retry_count = 0
    /\ joined = {"r1"}
    /\ rname = [ r \in Named |-> IF r = "r1" THEN "general" ELSE "town" ]
    /\ writer = {}
    /\ run = 0
    /\ saved0 = NoState
    /\ again = FALSE
    /\ changed = FALSE
    /\ windows = << >>
    /\ cur = META
    /\ fetched = {}
    /\ nfetch = 0
    /\ retries = 0
    /\ lastResp = NoResp
    /\ lastCall = NoCall
    /\ slept = 0

\* No state file yet; the provider holds any of the message histories.
Init ==
    /\ state_file = NoState
    /\ remote \in Remotes
    /\ \A r \in RoomIds : remote[r] \subseteq MsgTimes(r)
    /\ remote["r3"] = { DayStart(CreatedDay("r3")) + one_ms }
    /\ InitRun

\* the room entries a version-1.0 state file can hold
OldRecord(r, saved) ==
    [ name |-> IF HasName(r) THEN RemoteName(r) ELSE "direct-" \o r,
      type |-> IF RoomType(r) = "ims" THEN "direct" ELSE "channel",
      lastsaved |-> saved,
      begintime |-> DayStart(CreatedDay(r)),
      lastmessage |-> null_date ]

\* State files written by version 1.0: no '_meta', the old type names.
OldFiles ==
    { [ exists |-> TRUE, keys |-> ks,
        data |-> [ r \in { ks[i] : i \in 1 .. Len(ks) } |-> OldRecord(r, saved) ] ] :
      ks \in { << >>, << "r1" >>, << "r1", "r2" >> },
      saved \in { null_date, EndOfDay(1) } }

\* A state file of version 1.0 is found; every message is at the provider.
InitOld ==
    /\ InitRun
    /\ remote = [ r \in RoomIds |-> MsgTimes(r) ]
    /\ state_file \in OldFiles

----------------------------------------------------------------------------
(* The arguments of a run *)

StartArgs == { << >> } \cup { << DayStart(d) >> : d \in 1 .. MaxDay }   \* -s
EndArgs == { EndOfDay(d) : d \in Days }                          \* -e, or yesterday

Stopped == pc \in {"idle", "done", "aborted"}

\* sleep(polite_pause) after the login and after each list call
ListPause(pause) == pause

\* WindowPause, were the sleep left out
WindowPauseNone(pause) == 0

\* sleep(polite_pause) after a window
WindowPause(pause) == pause

\* ShouldSave, were the read-only flag ignored
ShouldSaveAlways(ro) == TRUE

\* the test that updates the state file
ShouldSave(ro) == ~ro

\* the rooms the user joins or leaves between runs
Movers == {"r2"}

\* The provider's membership changes between two runs.
ProviderChange(r) ==
    /\ Stopped
    /\ run < MaxRuns
    /\ ~changed
    /\ joined' = IF r \in joined THEN joined \ {r} ELSE joined \cup {r}
    /\ changed' = TRUE
    /\ UNCHANGED << state_file, files, writer, room_state, start_time, end_time,
                    readonlystate, polite_pause, pc, idx, t_oldest, t_latest,
                    retry_count, remote, rname, run, saved0, again, windows, cur,
                    fetched, nfetch, retries, lastResp, lastCall, slept >>

\* Arguments, configuration, state load and login of one execution.
StartRun(s, e, ro) ==
    /\ Stopped
    /\ run < MaxRuns
    /\ run' = run + 1
    /\ start_time' = s
    /\ end_time' = e
    /\ readonlystate' = ro
    /\ polite_pause' = PauseSeconds
    /\ room_state' = Loaded
    /\ saved0' = state_file
    /\ again' = /\ pc = "done"
                 /\ ShouldSave(readonlystate)
                 /\ ~changed
                 /\ s = start_time
                 /\ e = end_time
    /\ changed' = FALSE
    /\ lastCall' = [ kind |-> "login", retry |-> FALSE, gap |-> 0,
                     pause |-> PauseSeconds, n |-> 1 ]
    /\ slept' = ListPause(PauseSeconds)
    /\ lastResp' = NoResp
    /\ nfetch' = 0
    /\ retries' = 0
    /\ retry_count' = 0
    /\ idx' = 0
    /\ t_oldest' = 0
    /\ t_latest' = 0
    /\ windows' = << >>
    /\ cur' = META
    /\ pc' = "list_channels"
    /\ UNCHANGED << state_file, files, writer, remote, joined, rname, fetched >>

\* assemble_state(room_state, <list call>, room_type); sleep(polite_pause)
ListRooms(at, room_type, next) ==
    /\ pc = at
    /\ room_state' = assemble_state(room_state, room_type)
    /\ lastCall' = Called(room_type, FALSE, polite_pause)
    /\ slept' = ListPause(polite_pause)
    /\ pc' = next
    /\ idx' = 1
    /\ UNCHANGED << state_file, files, writer, start_time, end_time, readonlystate,
                    polite_pause, t_oldest, t_latest, retry_count, remote,
                    joined, rname, run, saved0, again, changed, windows, cur, fetched,
                    nfetch, retries, lastResp >>

ListChannels == ListRooms("list_channels", "channels", "list_ims")
ListIms == ListRooms("list_ims", "ims", "list_groups")
ListGroups == ListRooms("list_groups", "groups", "loop")

InLoop == pc = "loop" /\ idx <= Len(room_state.keys)
channel_id == room_state.keys[idx]

\* SetLastSaved, were the assignment left out
SetLastSavedNever(st, key, v) == st

\* room_state[key]['lastsaved'] = v
SetLastSaved(st, key, v) ==
    [ st EXCEPT !.data[key] = SetField(st.data[key], "lastsaved", v) ]

\* The loop body for the '_meta' key: the room block is skipped, the
\* assignment that ends the body is not.
MetaEntry ==
    /\ InLoop
    /\ channel_id = META
    /\ room_state' = SetLastSaved(room_state, META, end_time)
    /\ idx' = idx + 1
    /\ UNCHANGED << state_file, files, writer, start_time, end_time, readonlystate,
                    polite_pause, pc, t_oldest, t_latest, retry_count, remote,
                    joined, rname, run, saved0, again, changed, windows, cur, fetched,
                    nfetch, retries, lastResp, lastCall, slept >>

\* SelectOldest, were the global start taken as it is
SelectOldestStartOnly(channel_data) ==
    IF start_time # << >>
    THEN start_time[1]
    ELSE IF channel_data.lastsaved # null_date
         THEN channel_data.lastsaved + one_us
         ELSE channel_data.begintime

\* SelectOldest, were the watermark ignored
SelectOldestNoWatermark(channel_data) ==
    IF start_time # << >>
    THEN IF channel_data.begintime > start_time[1]
         THEN channel_data.begintime ELSE start_time[1]
    ELSE channel_data.begintime

\* the choice of t_oldest for a room
SelectOldest(channel_data) ==
    IF start_time # << >>
    THEN IF channel_data.begintime > start_time[1]
         THEN channel_data.begintime ELSE start_time[1]
    ELSE IF channel_data.lastsaved # null_date
         THEN channel_data.lastsaved + one_us
         ELSE channel_data.begintime

BeginRoom ==
    /\ InLoop
    /\ channel_id # META
    /\ t_oldest' = SelectOldest(room_state.data[channel_id])
    /\ t_latest' = null_date
    /\ cur' = channel_id
    /\ windows' = << >>
    /\ pc' = "window"
    /\ UNCHANGED << state_file, files, writer, room_state, start_time, end_time,
                    readonlystate, polite_pause, idx, retry_count, remote,
                    joined, rname, run, saved0, again, changed, fetched, nfetch,
                    retries, lastResp, lastCall, slept >>

\* the condition of the window loop
LoopCond ==
    /\ t_oldest < end_time
    /\ t_oldest < room_state.data[cur].lastmessage

----------------------------------------------------------------------------
(* The history endpoint and the window loop *)

\* the waits a rate-limit error text can carry
Waits == { 1, WaitLimit - 1, WaitLimit, WaitLimit + 1 }

\* messages of room r the provider holds in [oldest, latest], at most count
Holds(r, oldest, latest, count) ==
    Min2(Cardinality({ m \in remote[r] : oldest <= m /\ m <= latest }), count)

\* What <kind>_history can answer: success with the messages it holds (or,
\* from an inconsistent provider, with more than were asked for), or an
\* error text: too-many-requests with a wait, too-many-requests without a
\* readable wait, or anything else.
Responses(r, oldest, latest) ==
    { [ success |-> TRUE, too_many |-> FALSE, wait |-> << >>, n |-> k ] :
        k \in { Holds(r, oldest, latest, count_max), count_max + 1 } }
    \cup { [ success |-> FALSE, too_many |-> TRUE, wait |-> << w >>, n |-> 0 ] :
             w \in Waits }
    \cup { [ success |-> FALSE, too_many |-> b, wait |-> << >>, n |-> 0 ] :
             b \in BOOLEAN }

\* Reasonable, were the limit itself let through
ReasonableUpToLimit(seconds_to_wait) == seconds_to_wait <= WaitLimit

\* the test that lets a rate-limit wait be slept
Reasonable(seconds_to_wait) == seconds_to_wait < WaitLimit

\* WindowLatest, were the last microsecond not taken off
WindowLatestWholeDay(oldest) == oldest + one_day

\* t_latest = t_oldest + one_day - timedelta(microseconds=1)
WindowLatest(oldest) == oldest + one_day - one_us

\* t_oldest += one_day
NextOldest(oldest) == oldest + one_day

\* RaisedPause, were the pause set to the wait
RaisedPauseToWait(pause, seconds_to_wait) ==
    IF seconds_to_wait < pause THEN seconds_to_wait ELSE pause

\* polite_pause += seconds_to_wait if seconds_to_wait < polite_pause else polite_pause
RaisedPause(pause, seconds_to_wait) ==
    pause + (IF seconds_to_wait < pause THEN seconds_to_wait ELSE pause)

\* the output file of a window
OutPath(t, name) == [ date |-> DayOf(t), name |-> name ]

\* the test that writes the window's file
ShouldWrite(num_messages) == num_messages > 0

\* the test that logs 'Too many messages' (the elif of the write test)
ShouldLog(num_messages) == ~ShouldWrite(num_messages) /\ num_messages > count_max

\* Raise, were the state file updated on the way out
RaiseAfterSave(resp) ==
    /\ pc' = "aborted"
    /\ lastResp' = [ resp EXCEPT !.n = 0 ] @@
                   [ wrote |-> FALSE, logged |-> FALSE, handled |-> "raise" ]
    /\ slept' = 0
    /\ state_file' = [ exists |-> TRUE, keys |-> room_state.keys,
                       data |-> room_state.data ]
    /\ UNCHANGED << files, writer, polite_pause, t_oldest, fetched, retries >>

\* raise Exception(...): the script ends here
Raise(resp) ==
    /\ pc' = "aborted"
    /\ lastResp' = [ resp EXCEPT !.n = 0 ] @@
                   [ wrote |-> FALSE, logged |-> FALSE, handled |-> "raise" ]
    /\ slept' = 0
    /\ UNCHANGED << files, writer, polite_pause, t_oldest, fetched, retries, state_file >>

\* SleepAndRetry, were the retry loop left for the next window
SleepAndSkip(resp) ==
    /\ retries < MaxRetries
    /\ retries' = retries + 1
    /\ polite_pause' = RaisedPause(polite_pause, resp.wait[1])
    /\ slept' = resp.wait[1]
    /\ lastResp' = resp @@ [ wrote |-> FALSE, logged |-> FALSE,
                             handled |-> "retry" ]
    /\ t_oldest' = NextOldest(t_oldest)
    /\ pc' = "window"
    /\ UNCHANGED << files, writer, fetched, state_file >>

\* SleepAndRetry, were the script to give up after its first retry
SleepAndRetryOnce(resp) ==
    IF retry_count' <= 1
    THEN /\ retries < MaxRetries
         /\ retries' = retries + 1
         /\ polite_pause' = RaisedPause(polite_pause, resp.wait[1])
         /\ slept' = resp.wait[1]
         /\ lastResp' = resp @@ [ wrote |-> FALSE, logged |-> FALSE,
                                  handled |-> "retry" ]
         /\ pc' = "retry"
         /\ UNCHANGED << files, writer, t_oldest, fetched, state_file >>
    ELSE Raise(resp)

\* A rate-limit wait below the limit: the pause is raised, the wait is
\* slept and retry_flag stays set.
SleepAndRetry(resp) ==
    /\ retries < MaxRetries
    /\ retries' = retries + 1
    /\ polite_pause' = RaisedPause(polite_pause, resp.wait[1])
    /\ slept' = resp.wait[1]
    /\ lastResp' = resp @@ [ wrote |-> FALSE, logged |-> FALSE,
                             handled |-> "retry" ]
    /\ pc' = "retry"
    /\ UNCHANGED << files, writer, t_oldest, fetched, state_file >>

\* One pass of the retry loop: the call, and what follows its response.
Attempt(resp, retry) ==
    LET channel_data == room_state.data[cur]
        latest == WindowLatest(t_oldest)
    IN
    /\ resp \in Responses(cur, get_rocketchat_timestamp(t_oldest),
                          get_rocketchat_timestamp(latest))
    /\ t_latest' = latest
    /\ nfetch' = Min2(nfetch + 1, 1)
    /\ lastCall' = Called("history", retry, polite_pause)
    /\ IF resp.success
       THEN /\ writer' = IF ShouldWrite(resp.n)
                          THEN writer \cup
                                 { [ path |-> OutPath(t_oldest, channel_data.name),
                                     id |-> cur ] }
                          ELSE writer
            /\ files' = IF ShouldWrite(resp.n)
                        THEN files \cup { OutPath(t_oldest, channel_data.name) }
                        ELSE files
            /\ lastResp' = resp @@ [ wrote |-> ShouldWrite(resp.n),
                                     logged |-> ShouldLog(resp.n),
                                     handled |-> "next" ]
            /\ fetched' = fetched \cup { << cur, DayOf(t_oldest) >> }
            /\ t_oldest' = NextOldest(t_oldest)
            /\ slept' = WindowPause(polite_pause)
            /\ pc' = "window"
            /\ UNCHANGED << polite_pause, retries, state_file >>
       ELSE IF resp.too_many /\ resp.wait # << >>
            THEN IF Reasonable(resp.wait[1])
                 THEN SleepAndRetry(resp)
                 ELSE Raise(resp)
            ELSE Raise(resp)
    /\ UNCHANGED << room_state, start_time, end_time, readonlystate, idx,
                    remote, joined, rname, run, saved0, again, changed, cur >>

\* First attempt of a window: the loop condition holds, t_latest is set.
FetchWindow(resp) ==
    /\ pc = "window"
    /\ LoopCond
    /\ windows' = Append(windows, [ oldest |-> t_oldest,
                                    latest |-> WindowLatest(t_oldest) ])
    /\ retry_count' = 1
    /\ Attempt(resp, FALSE)

\* A further attempt of the same window, after a rate-limit sleep.
RetryWindow(resp) ==
    /\ pc = "retry"
    /\ retry_count' = retry_count + 1
    /\ UNCHANGED windows
    /\ Attempt(resp, TRUE)

\* The window loop is over: the room's 'lastsaved' becomes end_time.
EndRoom ==
    /\ pc = "window"
    /\ ~LoopCond
    /\ room_state' = SetLastSaved(room_state, cur, end_time)
    /\ idx' = idx + 1
    /\ pc' = "loop"
    /\ UNCHANGED << state_file, files, writer, start_time, end_time, readonlystate,
                    polite_pause, t_oldest, t_latest, retry_count, remote,
                    joined, rname, run, saved0, again, changed, windows, cur, fetched,
                    nfetch, retries, lastResp, lastCall, slept >>

\* After the for loop: pickle.dump(room_state), unless read-only.
SaveState ==
    /\ pc = "loop"
    /\ idx > Len(room_state.keys)
    /\ state_file' = IF ShouldSave(readonlystate)
                     THEN [ exists |-> TRUE, keys |-> room_state.keys,
                            data |-> room_state.data ]
                     ELSE state_file
    /\ pc' = "done"
    /\ UNCHANGED << files, writer, room_state, start_time, end_time, readonlystate,
                    polite_pause, idx, t_oldest, t_latest, retry_count, remote,
                    joined, rname, run, saved0, again, changed, windows, cur, fetched,
                    nfetch, retries, lastResp, lastCall, slept >>

\* every response record, whatever the room and the window
AllResponses ==
    [ success : {TRUE}, too_many : {FALSE}, wait : { << >> },
      n : 0 .. count_max + 1 ]
    \cup [ success : {FALSE}, too_many : BOOLEAN,
           wait : { << >> } \cup { << w >> : w \in Waits }, n : {0} ]

Next ==
    \/ \E r \in Movers : ProviderChange(r)
    \/ \E s \in StartArgs, e \in EndArgs, ro \in BOOLEAN : StartRun(s, e, ro)
    \/ ListChannels
    \/ ListIms
    \/ ListGroups
    \/ MetaEntry
    \/ BeginRoom
    \/ \E resp \in AllResponses : FetchWindow(resp)
    \/ \E resp \in AllResponses : RetryWindow(resp)
    \/ EndRoom
    \/ SaveState

Spec == Init /\ [][Next]_vars

\* The steps of a started run. The interpreter executes the script
\* statement by statement and the provider answers every request, so a
\* run that can take a step does take one.
RunStep ==
    \/ ListChannels
    \/ ListIms
    \/ ListGroups
    \/ MetaEntry
    \/ BeginRoom
    \/ \E resp \in AllResponses : FetchWindow(resp)
    \/ \E resp \in AllResponses : RetryWindow(resp)
    \/ EndRoom
    \/ SaveState

FairSpec == Spec /\ WF_vars(RunStep)

\* the script run over a state file of version 1.0
SpecOld == InitOld /\ [][Next]_vars

----------------------------------------------------------------------------
(* A provider whose rooms are renamed, created and written to between runs *)

\* a name is free when no room the lists report, other than r, carries it
FreeName(n, r) == \A o \in (joined \cap Named) \ {r} : rname[o] # n

\* the common part of the provider's changes: between runs only
BetweenRuns ==
    /\ Stopped
    /\ run < MaxRuns
    /\ changed' = TRUE
    /\ UNCHANGED << state_file, files, writer, room_state, start_time,
                    end_time, readonlystate, polite_pause, pc, idx, t_oldest,
                    t_latest, retry_count, run, saved0, again, windows, cur,
                    fetched, nfetch, retries, lastResp, lastCall, slept >>

\* room r is renamed at the provider
RenameRoom(r, n) ==
    /\ r \in joined
    /\ rname[r] # n
    /\ FreeName(n, r)
    /\ rname' = [ rname EXCEPT ![r] = n ]
    /\ BetweenRuns
    /\ UNCHANGED << remote, joined >>

\* the private group is created under a free name
CreateGroup(n) ==
    /\ "r3" \notin joined
    /\ FreeName(n, "r3")
    /\ joined' = joined \cup {"r3"}
    /\ rname' = [ rname EXCEPT !["r3"] = n ]
    /\ BetweenRuns
    /\ UNCHANGED remote

\* a message later than all others is posted in room r
PostMessage(r, m) ==
    /\ r \in joined
    /\ \A o \in remote[r] : o < m
    /\ remote' = [ remote EXCEPT ![r] = @ \cup {m} ]
    /\ BetweenRuns
    /\ UNCHANGED << joined, rname >>

InitProvider ==
    /\ state_file = NoState
    /\ remote = [ r \in RoomIds |->
                     IF HasName(r) THEN { DayStart(CreatedDay(r)) + one_ms }
                     ELSE {} ]
    /\ InitRun

NextProvider ==
    \/ Next
    \/ \E n \in Names : RenameRoom("r1", n)
    \/ \E n \in Names : CreateGroup(n)
    \/ PostMessage("r1", DayStart(CreatedDay("r3")) + one_ms)

SpecProvider == InitProvider /\ [][NextProvider]_vars

----------------------------------------------------------------------------
(* Properties *)

Rooms(st) == Keys(st) \ {META}

Persisted == pc = "done" /\ ShouldSave(readonlystate)

\* C1: the persisted lastsaved of a room never decreases from one run to
\* the next, whatever the bounds of the runs.
C1_LastSavedMonotone ==
    [][ \A r \in Rooms(state_file) :
          state_file'.data[r].lastsaved >= state_file.data[r].lastsaved ]_vars

\* C2: after a completed, persisted run, every day with a message between
\* a room's begintime and its lastsaved was fetched in some run.
C2_WatermarkCovers ==
    Persisted =>
        \A r \in Rooms(state_file) : \A m \in remote[r] :
            ( /\ state_file.data[r].begintime <= StartOfDay(m)
              /\ StartOfDay(m) <= state_file.data[r].lastsaved )
            => << r, DayOf(m) >> \in fetched

\* C3: a run that ends with an exception leaves the state file as it was
\* when the run began, and makes no provider call after the exception.
C3_AbortKeepsState ==
    /\ [](pc = "aborted" => state_file = saved0)
    /\ [][ (pc = "aborted" /\ run' = run) =>
             (lastCall' = lastCall /\ state_file' = state_file) ]_vars

\* a run aborted in its second room, the first one's watermark moved
C3_Witness ==
    /\ pc = "aborted"
    /\ idx = 3
    /\ room_state.data[room_state.keys[2]].lastsaved = end_time
    /\ Loaded # room_state

\* C4: with the read-only flag the state file is never written: during and
\* after the run it is what it was when the run began.
C4_ReadOnlyNeverWrites ==
    (run > 0 /\ readonlystate) => state_file = saved0

\* a finished read-only run over an existing state file that found a new
\* room and moved the watermarks in memory
C4_Witness ==
    /\ pc = "done"
    /\ readonlystate
    /\ saved0.exists
    /\ Rooms(room_state) # Rooms(saved0)
    /\ \E r \in Rooms(saved0) :
          room_state.data[r].lastsaved # saved0.data[r].lastsaved

\* C5 as stated: a run that repeats the bounds of the completed, persisted
\* run before it, the provider unchanged, issues no history call.
C5_ReplanEmpty == again => nfetch = 0

\* C5 amended: ... and that has no global start ...
C5_ReplanEmptyNoStart == (again /\ start_time = << >>) => nfetch = 0

\* the repeat of a run that fetched, finished
C5_Witness ==
    /\ again
    /\ start_time = << >>
    /\ pc = "done"
    /\ fetched # {}

\* C6: the windows of a room in a run are whole days, one after the other:
\* each is [d 00:00:00.000000, d + 1 day - 1 microsecond] and the next one
\* starts one microsecond after the one before it ends.
C6_WindowsContiguousDays ==
    \A i \in 1 .. Len(windows) :
        /\ windows[i].oldest = StartOfDay(windows[i].oldest)
        /\ windows[i].latest = windows[i].oldest + one_day - one_us
        /\ i > 1 => /\ windows[i].oldest = windows[i - 1].latest + one_us
                    /\ windows[i].oldest > windows[i - 1].oldest

\* a room with two windows fetched
C6_Witness == Len(windows) >= 2 /\ lastResp.success

\* the for loop has just left the room block of `cur`
RoomDone == pc = "loop" /\ idx > 1 /\ room_state.keys[idx - 1] = cur /\ cur # META

NoWatermarkBefore(r) ==
    \/ ~saved0.exists
    \/ r \notin Keys(saved0)
    \/ saved0.data[r].lastsaved = null_date

WindowDays == { DayOf(windows[i].oldest) : i \in 1 .. Len(windows) }

\* C7: without a watermark and without a global start, a room whose last
\* message lies between its creation day and the global end is fetched for
\* exactly the days from its creation day through the day of that message.
C7_PlanThroughLastMessage ==
    ( /\ RoomDone
      /\ start_time = << >>
      /\ NoWatermarkBefore(cur)
      /\ room_state.data[cur].begintime <= room_state.data[cur].lastmessage
      /\ room_state.data[cur].lastmessage <= end_time )
    => WindowDays = DayOf(room_state.data[cur].begintime) ..
                    DayOf(room_state.data[cur].lastmessage)

RateLimited == lastResp.too_many /\ lastResp.wait # << >>

\* C8 as stated: a rate-limit wait of W seconds is slept and retried when
\* W <= 300, and is fatal only when W > 300.
C8_RetryUpTo300 ==
    RateLimited =>
        /\ lastResp.wait[1] <= WaitLimit => lastResp.handled = "retry"
        /\ lastResp.wait[1] > WaitLimit => lastResp.handled = "raise"

\* C8 amended: ... is slept and retried when W < 300, and is fatal when
\* W >= 300; W = 300 is fatal.
C8_RetryBelow300 ==
    /\ RateLimited =>
        /\ lastResp.wait[1] < WaitLimit => lastResp.handled = "retry"
        /\ lastResp.wait[1] >= WaitLimit => lastResp.handled = "raise"
    /\ lastResp.handled = "retry" => (pc = "retry" /\ slept = lastResp.wait[1])
    /\ lastResp.handled = "raise" => pc = "aborted"

\* a wait of 299 seconds slept, the retry pending
C8_Witness ==
    /\ RateLimited
    /\ lastResp.wait[1] = WaitLimit - 1
    /\ pc = "retry"
    /\ slept = WaitLimit - 1

\* C9: a window's file is written exactly when 0 < count <= countMax; a
\* count above countMax is logged instead; the run goes on either way.
C9_WriteIffWithinLimit ==
    lastResp.success =>
        /\ lastResp.wrote <=> (0 < lastResp.n /\ lastResp.n <= count_max)
        /\ lastResp.logged <=> lastResp.n > count_max
        /\ lastResp.handled = "next"

\* C10 as stated: before every provider call but the first of a run, the
\* program has slept at least the pacing delay in force since the call
\* before it, retries after a rate-limit response included.
C10_PacedAlways == lastCall.n >= 2 => lastCall.gap >= lastCall.pause

\* C10 amended: ... except before a retry after a rate-limit response, where
\* it has slept the seconds the response asked for.
C10_PacedExceptRetry ==
    /\ (lastCall.n >= 2 /\ ~lastCall.retry) => lastCall.gap >= lastCall.pause
    /\ pc = "retry" => slept = lastResp.wait[1]

\* a window fetched after a retry raised the pause
C10_Witness ==
    /\ lastCall.kind = "history"
    /\ ~lastCall.retry
    /\ lastCall.pause > PauseSeconds
    /\ lastCall.gap >= lastCall.pause

\* C11: when a run completes, every room record of the state, listed by
\* the provider in this run or not, fetched or not, has lastsaved = end_time.
C11_AllRoomsAtGlobalEnd ==
    pc = "done" => \A r \in Rooms(room_state) :
                       room_state.data[r].lastsaved = end_time

\* a completed run that fetched, with a room the provider no longer lists
C11_Witness ==
    /\ pc = "done"
    /\ ~changed
    /\ nfetch = 1
    /\ \E r \in Rooms(room_state) : r \notin joined

\* the lower bound the plan of room record rec starts at
LowerBound(rec) ==
    IF start_time # << >>
    THEN Max({ rec.begintime, start_time[1] })
    ELSE IF rec.lastsaved # null_date
         THEN rec.lastsaved + one_us
         ELSE rec.begintime

\* C13: the first window of a room starts at max(begintime, global start)
\* when a global start is given, watermark or not; else one microsecond
\* after the watermark when there is one; else at begintime.
C13_FirstWindowAtLowerBound ==
    (pc \in {"window", "retry"} /\ Len(windows) >= 1)
        => windows[1].oldest = LowerBound(room_state.data[cur])

\* a room with a watermark, created after the global start, being fetched
C13_Witness ==
    /\ pc \in {"window", "retry"}
    /\ Len(windows) >= 1
    /\ start_time # << >>
    /\ room_state.data[cur].lastsaved # null_date
    /\ room_state.data[cur].begintime > start_time[1]

\* C17: within a run polite_pause never decreases.
C17_PauseNeverDecreases ==
    [][ run' = run => polite_pause' >= polite_pause ]_vars

\* a window answered after a rate-limit response raised the pause
C17_Witness ==
    /\ polite_pause > PauseSeconds
    /\ lastResp.success
    /\ lastCall.retry

\* C18: a run leaves the '_meta' entry alone: it fetches nothing for it and
\* the entry holds the schema version and nothing else.
C18_MetaUntouched ==
    /\ \A f \in fetched : f[1] # META
    /\ pc = "done" => DOMAIN room_state.data[META] = {"schema_version"}

\* C19: no window of a room starts before the room's begintime.
C19_NoWindowBeforeCreation ==
    \A i \in 1 .. Len(windows) :
        windows[i].oldest >= room_state.data[cur].begintime

\* C16: a rate-limit response keeps the script on the same room and the
\* same window: nothing is written, t_oldest stays, and the next provider
\* call is the history request for that window again; once it succeeds the
\* window counts as fetched and t_oldest moves one day on.
C16_RetrySameWindow ==
    /\ [](pc = "retry" =>
            windows[Len(windows)] = [ oldest |-> t_oldest, latest |-> t_latest ])
    /\ [][ /\ retries' = retries + 1 =>
                /\ pc' = "retry"
                /\ t_oldest' = t_oldest
                /\ files' = files
                /\ fetched' = fetched
                /\ room_state' = room_state
                /\ << cur', idx' >> = << cur, idx >>
           /\ pc = "retry" =>
                /\ lastCall'.kind = "history" /\ lastCall'.retry
                /\ << cur', idx', t_latest', windows' >>
                       = << cur, idx, t_latest, windows >>
                /\ room_state' = room_state
                /\ IF lastResp'.success
                   THEN /\ t_oldest' = t_oldest + one_day
                        /\ << cur, DayOf(t_oldest) >> \in fetched'
                   ELSE t_oldest' = t_oldest /\ files' = files ]_vars

\* a retried window answered with messages, its file written
C16_Witness ==
    /\ lastCall.retry
    /\ lastResp.success
    /\ lastResp.wrote
    /\ OutPath(windows[Len(windows)].oldest, room_state.data[cur].name) \in files

\* one more rate-limit answer taken while a window is being retried
RetryAgain == \E resp \in AllResponses : RetryWindow(resp) /\ pc' = "retry"

\* C14: when the provider answers every request and stops rate-limiting a
\* window after at most MaxRetries answers, every started run ends: with
\* the state persisted, or aborted by an error answer. As long as the
\* provider keeps answering with small waits the run stays on the retry
\* of the same window: no attempt count ever ends the retry loop.
C14_RunTerminates ==
    /\ [](~Stopped =>
            <>(pc = "done" \/ (pc = "aborted" /\ lastResp.handled = "raise")))
    /\ []((pc = "retry" /\ retries < MaxRetries) => ENABLED RetryAgain)

\* a run that finished and saved after MaxRetries rate-limit answers
C14_Witness ==
    /\ pc = "done"
    /\ retries = MaxRetries
    /\ ShouldSave(readonlystate)
    /\ state_file # saved0

\* C15: the load migrates a stored state only when its schema version is
\* below VERSION; what it loads is at VERSION, and migrating that again
\* changes nothing: Migrate(Migrate(s)) = Migrate(s), for the version-1.0
\* files as for the files the script wrote itself.
C15_MigrateIdempotent ==
    /\ [](state_file.exists =>
            LET s == Content(state_file) IN
            /\ SchemaVersion(Migrate(s)) = VERSION
            /\ Migrate(Migrate(s)) = Migrate(s)
            /\ SchemaVersion(s) >= VERSION => Migrate(s) = s
            /\ SchemaVersion(s) < VERSION => Migrate(s) # s)
    /\ [][ (run' = run + 1 /\ state_file.exists) =>
             /\ room_state' = Migrate(Content(state_file))
             /\ Migrate(room_state') = room_state' ]_vars

\* a version-1.0 file with rooms was loaded, upgraded and saved, and the
\* next run loaded the saved state as it was
C15_Witness ==
    /\ run = 2
    /\ idx = 0
    /\ SchemaVersion(Content(state_file)) = VERSION
    /\ room_state = Content(state_file)
    /\ \E r \in Rooms(room_state) : room_state.data[r].type = "ims"
    /\ \E r \in Rooms(room_state) : room_state.data[r].type = "channels"

\* the room type a list step asks for
ListedType ==
    CASE pc = "list_channels" -> "channels"
      [] pc = "list_ims" -> "ims"
      [] pc = "list_groups" -> "groups"
      [] OTHER -> "none"

\* C12: merging a provider list never changes lastsaved, begintime, name or
\* type of a room the state already holds; it sets lastmessage to the
\* provider's 'lm', or to null_date when there is none, for the rooms
\* listed; a new id starts with lastsaved = null_date. Within a run only
\* the end of a room's window loop moves its lastsaved, and from one saved
\* state file to the next no room is lost or changes name or begintime.
C12_MergeKeepsFields ==
    /\ [][ ListedType # "none" =>
             /\ \A k \in Rooms(room_state) :
                  /\ k \in Rooms(room_state')
                  /\ room_state'.data[k].lastsaved = room_state.data[k].lastsaved
                  /\ room_state'.data[k].lastmessage =
                       IF k \in joined /\ RoomType(k) = ListedType
                       THEN LastMessage(Descriptor(k))
                       ELSE room_state.data[k].lastmessage
             /\ \A k \in Rooms(room_state') \ Rooms(room_state) :
                  /\ k \in joined /\ RoomType(k) = ListedType
                  /\ room_state'.data[k].lastsaved = null_date
                  /\ room_state'.data[k].lastmessage = LastMessage(Descriptor(k)) ]_vars
    /\ [][ run' = run =>
             \A k \in Rooms(room_state) :
               /\ k \in Rooms(room_state')
               /\ room_state'.data[k].name = room_state.data[k].name
               /\ room_state'.data[k].begintime = room_state.data[k].begintime
               /\ room_state'.data[k].type = room_state.data[k].type
               /\ room_state'.data[k].lastsaved # room_state.data[k].lastsaved
                    => (pc = "window" /\ pc' = "loop" /\ k = cur) ]_vars
    /\ [][ \A k \in Rooms(state_file) :
             /\ k \in Rooms(state_file')
             /\ state_file'.data[k].name = state_file.data[k].name
             /\ state_file'.data[k].begintime = state_file.data[k].begintime ]_vars

\* the lists of a second run are merged: r1, renamed at the provider and
\* with a newer message, keeps its stored name and lastsaved and has its
\* lastmessage refreshed; r3 is new
C12_Witness ==
    /\ pc = "loop"
    /\ idx = 1
    /\ saved0.exists
    /\ "r1" \in Rooms(saved0)
    /\ room_state.data["r1"].name # rname["r1"]
    /\ room_state.data["r1"].lastmessage # saved0.data["r1"].lastmessage
    /\ room_state.data["r1"].lastsaved = saved0.data["r1"].lastsaved
    /\ room_state.data["r1"].lastsaved # null_date
    /\ "r3" \in Rooms(room_state) \ Rooms(saved0)
    /\ room_state.data["r3"].lastsaved = null_date

\* C20: no output file is written for two different room ids.
C20_OneWriterPerFile ==
    \A a \in writer : \A b \in writer : a.path = b.path => a.id = b.id

====
